---- MODULE Spec2Model ----
(***************************************************************************)
(* A model of the CodeNest local agent (codenest-agent): the HTTP server   *)
(* that runs shell commands, tracks the spawned processes in the           *)
(* activeProcesses map, times them out, and reads and writes project       *)
(* files under currentWorkingDir.                                          *)
(*                                                                         *)
(* Strings are sequences of one-character strings, so that toLowerCase,    *)
(* includes, trim, split, startsWith and path.resolve are computed the way *)
(* the JavaScript computes them.                                           *)
(***************************************************************************)
EXTENDS Integers, Sequences, FiniteSets, TLC

\* ------------------------------------------------------------------ bounds

\* Number of POST /run requests of one behaviour.
MaxRuns == 2
\* Date.now() is read at most this many milliseconds after the agent's start
\* by a spawn; later the clock only moves to timer deadlines.
MaxSpawnTime == 1
\* Signals one process receives from POST /kill and from shutdown handlers.
MaxSignals == 2
\* stdout/stderr 'data' events of one behaviour.
MaxChunks == 2
\* Number of POST /save-file requests of one behaviour.
MaxSaves == 2

\* ------------------------------------------------------- JavaScript values

Str(s) == [t |-> "string", v |-> s]
Num(n) == [t |-> "number", v |-> n]
Undefined == [t |-> "undefined"]
Null == [t |-> "null"]

\* typeof value === 'string'
IsString(x) == x.t = "string"

FalsyButEmptyString(x) ==
  \/ x.t = "undefined"
  \/ x.t = "null"
  \/ x.t = "number" /\ x.v = 0

\* !value
Falsy(x) ==
  \/ x.t = "undefined"
  \/ x.t = "null"
  \/ x.t = "string" /\ x.v = <<>>
  \/ x.t = "number" /\ x.v = 0

\* ----------------------------------------------------------------- strings

UpperCaseLetters ==
  <<"A","B","C","D","E","F","G","H","I","J","K","L","M",
    "N","O","P","Q","R","S","T","U","V","W","X","Y","Z">>

LowerCaseLetters ==
  <<"a","b","c","d","e","f","g","h","i","j","k","l","m",
    "n","o","p","q","r","s","t","u","v","w","x","y","z">>

ToLowerChar(c) ==
  IF \E i \in 1..Len(UpperCaseLetters) : UpperCaseLetters[i] = c
  THEN LowerCaseLetters[CHOOSE i \in 1..Len(UpperCaseLetters) : UpperCaseLetters[i] = c]
  ELSE c

\* String.prototype.toLowerCase
ToLowerCase(s) == [i \in 1..Len(s) |-> ToLowerChar(s[i])]

\* String.prototype.includes
Includes(s, sub) ==
  \E i \in 0..(Len(s) - Len(sub)) : SubSeq(s, i + 1, i + Len(sub)) = sub

\* String.prototype.startsWith
StartsWith(s, prefix) ==
  Len(prefix) <= Len(s) /\ SubSeq(s, 1, Len(prefix)) = prefix

WhiteSpace == {" ", "\t", "\n"}

RECURSIVE TrimStart(_)
TrimStart(s) ==
  IF s # <<>> /\ Head(s) \in WhiteSpace THEN TrimStart(Tail(s)) ELSE s

RECURSIVE TrimEnd(_)
TrimEnd(s) ==
  IF s # <<>> /\ s[Len(s)] \in WhiteSpace
  THEN TrimEnd(SubSeq(s, 1, Len(s) - 1))
  ELSE s

\* String.prototype.trim
Trim(s) == TrimEnd(TrimStart(s))

\* String.prototype.split(sep) for a one-character separator: the pieces
\* between the separators, empty pieces included.
RECURSIVE Split(_, _)
Split(s, sep) ==
  IF \E i \in 1..Len(s) : s[i] = sep
  THEN LET i == CHOOSE k \in 1..Len(s) :
                  s[k] = sep /\ \A j \in 1..(k - 1) : s[j] # sep
       IN <<SubSeq(s, 1, i - 1)>> \o Split(SubSeq(s, i + 1, Len(s)), sep)
  ELSE <<s>>

\* --------------------------------------------------------- POST /run input

\* the deny-list of the /run handler
dangerousCommands ==
  << <<"r","m"," ","-","r","f">>,
     <<"d","e","l"," ","/","f">>,
     <<"f","o","r","m","a","t">>,
     <<"f","d","i","s","k">>,
     <<"d","d"," ","i","f","=">> >>

IsDangerousNoLowerCase(command) ==
  \E i \in 1..Len(dangerousCommands) :
     Includes(command, ToLowerCase(dangerousCommands[i]))

\* dangerousCommands.some(d => command.toLowerCase().includes(d.toLowerCase()))
isDangerous(command) ==
  \E i \in 1..Len(dangerousCommands) :
     Includes(ToLowerCase(command), ToLowerCase(dangerousCommands[i]))

\* Command lines a caller sends: one per deny-list entry in some letter
\* case, commands the deny-list lets through, and a blank one.
CmdSleep == <<"s","l","e","e","p"," ","9","9","9">>
CmdEcho == <<"e","c","h","o"," ","h","i">>
CmdBlank == <<" ">>
CmdRmRf == <<"r","m"," ","-","r","f"," ","/">>
CmdRmRfUpper == <<"s","u","d","o"," ","R","M"," ","-","R","F"," ","/">>
CmdDel == <<"D","e","l"," ","/","F"," ","a">>
CmdFormat == <<"c","a","t"," ","F","o","r","m","a","t",".","m","d">>
CmdFdisk == <<"F","D","I","S","K">>
CmdDd == <<"d","d"," ","I","F","=","x">>

DangerousInputs == {CmdRmRf, CmdRmRfUpper, CmdDel, CmdFormat, CmdFdisk, CmdDd}
PassingInputs == {CmdSleep, CmdEcho, CmdBlank}

\* The body of a POST /run: text JSON.parse rejects, or an object whose
\* command field is any value.
RunBodies ==
  {[json |-> FALSE, command |-> Undefined]} \cup
  [json : {TRUE},
   command : {Undefined, Num(42), Str(<<>>)} \cup
             {Str(c) : c \in DangerousInputs \cup PassingInputs}]

\* ------------------------------------------------------------------- state

VARIABLES
  now,              \* Date.now(), in milliseconds since the agent started
  server,           \* "listening", "closing" (server.close called), "exited"
  runs,             \* the POST /run requests: what each has sent and where it is
                    \* ("idle", "received", "aborted" by its caller)
  child,            \* the ChildProcess spawned for each run request
  activeProcesses,  \* the Map processId -> child
  timers,           \* the two setTimeout timers of each executeCommand call
  promise,          \* the promise each executeCommand call returns
  resp,             \* the HTTP responses written to each run request
  last,             \* the response to the latest request that is not a run
  nchunks,          \* number of 'data' events so far
  currentWorkingDir,\* the confinement root of file operations
  fsDirs,           \* the directories of the file system
  fsFiles,          \* the regular files of the file system, with their content
  fsUnreadable,     \* the files and directories the agent has no permission to read
  saves             \* the POST /save-file requests

pmVars == <<now, server, runs, child, activeProcesses, timers, promise, resp, nchunks>>
fsVars == <<currentWorkingDir, fsDirs, fsFiles, fsUnreadable, saves>>
vars == <<pmVars, fsVars, last>>

Runs == 1..MaxRuns

\* setTimeout(..., 10 * 60 * 1000)
CommandTimeoutMs == 10 * 60 * 1000
\* setTimeout(..., 5000)
KillGraceMs == 5000

\* the signals and who sends them
SignalKinds ==
  {<<"SIGTERM", "kill">>, <<"SIGTERM", "shutdown">>,
   <<"SIGTERM", "timeout">>, <<"SIGKILL", "timeout">>}

\* A ChildProcess and what the closures of its executeCommand call hold.
\* st: "none" (not spawned), "running", "failing" (the spawn has failed and
\* 'error' is not emitted yet), "errored" ('error' emitted, 'close' to come),
\* "closed".  events: the 'error' and 'close' events emitted so far; code: the
\* code 'close' reported; sigs: the child.kill calls, by signal and caller.
\* out and err are the handlers' variables output and errorOutput; arrived
\* lists the 'data' events of the process as they came, <<stream, chunk>>.
NoChild ==
  [st |-> "none", processId |-> -1, out |-> <<>>, err |-> <<>>,
   arrived |-> <<>>,
   events |-> <<>>, code |-> Undefined,
   sigs |-> [k \in SignalKinds |-> 0]]
NoTimers == [t10 |-> "none", at10 |-> 0, t5 |-> "none", at5 |-> 0]
NoResponse == [ep |-> "none"]

\* ------------------------------------------------------------ HTTP replies

Reply(code, body) == [code |-> code, body |-> body]

InvalidJson == Reply(400, [error |-> "Invalid JSON", status |-> "failed"])
CommandRequired ==
  Reply(400, [error |-> "Invalid request: command is required and must be a string",
              status |-> "failed"])
CommandRejectedStatusRejected ==
  Reply(403, [error |-> "Command rejected for security reasons", status |-> "rejected"])

CommandRejected ==
  Reply(403, [error |-> "Command rejected for security reasons", status |-> "failed"])

\* ------------------------------------------------------- executeCommand

\* the result the 'close' handler builds
CloseResult(command, c, code) ==
  [command |-> command,
   output |-> Trim(c.out),
   error |-> Trim(c.err),
   exitCode |-> code,
   status |-> IF code = Num(0) THEN "success" ELSE "failed"]

\* the result the 'error' handler builds
ErrorResult(command, c, message) ==
  [command |-> command,
   output |-> Trim(c.out),
   error |-> <<"Process error: ", message>>,
   exitCode |-> Num(-1),
   status |-> "failed"]

\* the result of the catch around spawn
SpawnThrowResult(command, message) ==
  [command |-> command,
   output |-> <<>>,
   error |-> <<"Failed to execute command: ", message>>,
   exitCode |-> Num(-1),
   status |-> "failed"]

ResolveAlways(r, value) ==
  /\ promise' = [promise EXCEPT ![r] = [st |-> "settled", value |-> value]]
  /\ resp' = [resp EXCEPT ![r] = Append(@, Reply(200, value))]

\* resolve(result) and, the first time, the continuation of
\* `await executeCommand(...)`: res.writeHead(200); res.end(result).
\* A promise that is settled ignores every later resolve.
Resolve(r, value) ==
  IF promise[r].st = "settled"
  THEN UNCHANGED <<promise, resp>>
  ELSE /\ promise' = [promise EXCEPT ![r] = [st |-> "settled", value |-> value]]
       /\ resp' = [resp EXCEPT ![r] = Append(@, Reply(200, value))]

\* activeProcesses.delete(processId)
MapDelete(m, k) == [x \in (DOMAIN m) \ {k} |-> m[x]]

\* activeProcesses.set(processId, child)
MapSet(m, k, v) == [x \in (DOMAIN m) \cup {k} |-> IF x = k THEN v ELSE m[x]]

\* error.message of the two ways a spawn fails
SpawnErrorMessage == "spawn /bin/sh ENOENT"
EmptyFileMessage == "The argument 'file' cannot be empty"

\* parts[0] of command.trim().split(' ')
ProgramOf(command) == Split(Trim(command), " ")[1]

\* child_process.spawn throws, before it starts anything, when the file
\* name is empty.
SpawnThrows(command) == ProgramOf(command) = <<>>

\* the children the map holds
Tracked == {activeProcesses[id] : id \in DOMAIN activeProcesses}

\* child.kill(signal), called by `by`
Signal(c, signal, by) == [c EXCEPT !.sigs[<<signal, by>>] = @ + 1]

\* number of signals the child got from POST /kill and from shutdown
Requested(c) == c.sigs[<<"SIGTERM", "kill">>] + c.sigs[<<"SIGTERM", "shutdown">>]

Signalled(c) == \E k \in SignalKinds : c.sigs[k] > 0

\* The body of executeCommand up to the return of the promise: spawn, track
\* under Date.now(), register the handlers, start the 10 minute timer.  The
\* spawn starts a process or fails later with an 'error' event (outcome).
executeCommand(r, command, outcome) ==
  IF SpawnThrows(command)
  THEN /\ Resolve(r, SpawnThrowResult(command, EmptyFileMessage))
       /\ UNCHANGED <<child, activeProcesses, timers>>
  ELSE /\ child' = [child EXCEPT ![r] = [NoChild EXCEPT !.st = outcome, !.processId = now]]
       /\ activeProcesses' = MapSet(activeProcesses, now, r)
       /\ timers' = [timers EXCEPT ![r] =
                       [NoTimers EXCEPT !.t10 = "pending", !.at10 = now + CommandTimeoutMs]]
       /\ promise' = [promise EXCEPT ![r] = [st |-> "pending", value |-> Undefined]]
       /\ UNCHANGED resp

\* an early return of the /run handler
RejectRun(r, reply) ==
  /\ resp' = [resp EXCEPT ![r] = Append(@, reply)]
  /\ UNCHANGED <<child, activeProcesses, timers, promise, fsVars>>

\* POST /run: req.on('end', ...) up to the await
RunRequest(r, body, outcome) ==
  /\ server = "listening"
  /\ runs[r].st = "idle"
  /\ \A q \in 1..(r - 1) : runs[q].st # "idle"
  /\ runs' = [runs EXCEPT ![r] = [st |-> "received", body |-> body]]
  /\ IF ~body.json
     THEN RejectRun(r, InvalidJson)
     ELSE IF Falsy(body.command) \/ ~IsString(body.command)
     THEN RejectRun(r, CommandRequired)
     ELSE IF isDangerous(body.command.v)
     THEN RejectRun(r, CommandRejected)
     ELSE executeCommand(r, body.command.v, outcome)
  /\ UNCHANGED <<now, server, nchunks, last, fsVars>>

RunAbortKills(r) ==
  /\ runs' = [runs EXCEPT ![r].st = "aborted"]
  /\ child' = [child EXCEPT ![r] = Signal(@, "SIGTERM", "kill")]
  /\ activeProcesses' = MapDelete(activeProcesses, child[r].processId)

\* What the agent does when the caller of a run request that is still
\* waiting aborts or disconnects: the handler has registered 'data' and
\* 'end' on the request and nothing for 'close' or 'aborted', so no code of
\* the agent runs; the request is only marked.
OnRunAborted(r) ==
  /\ runs' = [runs EXCEPT ![r].st = "aborted"]
  /\ UNCHANGED <<child, activeProcesses>>

\* the caller of run request r aborts it (the client does after one minute)
RunAbort(r) ==
  /\ server # "exited"
  /\ runs[r].st = "received"
  /\ promise[r].st = "pending"
  /\ OnRunAborted(r)
  /\ UNCHANGED <<now, server, timers, promise, resp, nchunks, last, fsVars>>

OutputChunks == {<<" ","h","i","\n">>}

OnStdoutPrepends(c, chunk) == [c EXCEPT !.out = chunk \o @]

\* the 'data' handler of child.stdout: output += chunk
OnStdout(c, chunk) == [c EXCEPT !.out = @ \o chunk]

\* the 'data' handler of child.stderr: errorOutput += chunk
OnStderr(c, chunk) == [c EXCEPT !.err = @ \o chunk]

\* child.stdout.on('data', ...)
ChildStdout(r, chunk) ==
  /\ server # "exited"
  /\ child[r].st = "running"
  /\ nchunks < MaxChunks
  /\ child' = [child EXCEPT ![r] =
                 [OnStdout(@, chunk) EXCEPT !.arrived = Append(@, <<"stdout", chunk>>)]]
  /\ nchunks' = nchunks + 1
  /\ UNCHANGED <<now, server, runs, activeProcesses, timers, promise, resp, last, fsVars>>

\* child.stderr.on('data', ...)
ChildStderr(r, chunk) ==
  /\ server # "exited"
  /\ child[r].st = "running"
  /\ nchunks < MaxChunks
  /\ child' = [child EXCEPT ![r] =
                 [OnStderr(@, chunk) EXCEPT !.arrived = Append(@, <<"stderr", chunk>>)]]
  /\ nchunks' = nchunks + 1
  /\ UNCHANGED <<now, server, runs, activeProcesses, timers, promise, resp, last, fsVars>>

\* The codes 'close' reports: the process's own exit status, null when a
\* signal ended it, and the negative errno after a failed spawn.
OwnExitCodes == {Num(0), Num(1)}
FailedSpawnCode == Num(-2)
CloseCodes(c) ==
  IF c.st = "errored" THEN {FailedSpawnCode}
  ELSE OwnExitCodes \cup (IF Signalled(c) THEN {Null} ELSE {})

OnCloseSharedBuffers(r, code) ==
  /\ activeProcesses' = MapDelete(activeProcesses, child[r].processId)
  /\ Resolve(r, CloseResult(runs[r].body.command.v, child[1], code))

\* child.on('close', (code) => ...)
OnClose(r, code) ==
  /\ activeProcesses' = MapDelete(activeProcesses, child[r].processId)
  /\ Resolve(r, CloseResult(runs[r].body.command.v, child[r], code))

\* the process ends (or the failed spawn is cleaned up) and 'close' is emitted
ChildClose(r, code) ==
  /\ server # "exited"
  /\ child[r].st \in {"running", "errored"}
  /\ code \in CloseCodes(child[r])
  /\ OnClose(r, code)
  /\ child' = [child EXCEPT ![r].st = "closed", ![r].code = code,
                             ![r].events = Append(@, "close")]
  /\ UNCHANGED <<now, server, runs, timers, nchunks, last, fsVars>>

OnErrorKeepsEntry(r, message) ==
  /\ UNCHANGED activeProcesses
  /\ Resolve(r, ErrorResult(runs[r].body.command.v, child[r], message))

\* child.on('error', (error) => ...)
OnError(r, message) ==
  /\ activeProcesses' = MapDelete(activeProcesses, child[r].processId)
  /\ Resolve(r, ErrorResult(runs[r].body.command.v, child[r], message))

\* the spawn has failed and 'error' is emitted; 'close' follows it
ChildError(r) ==
  /\ server # "exited"
  /\ child[r].st = "failing"
  /\ OnError(r, SpawnErrorMessage)
  /\ child' = [child EXCEPT ![r].st = "errored", ![r].events = Append(@, "error")]
  /\ UNCHANGED <<now, server, runs, timers, nchunks, last, fsVars>>

\* The first timer's callback: after 10 minutes, SIGTERM to this call's child
\* if the map has this call's processId, and then the second timer.
Timeout10(r) ==
  /\ server # "exited"
  /\ timers[r].t10 = "pending"
  /\ now >= timers[r].at10
  /\ IF child[r].processId \in DOMAIN activeProcesses
     THEN /\ child' = [child EXCEPT ![r] = Signal(@, "SIGTERM", "timeout")]
          /\ timers' = [timers EXCEPT ![r].t10 = "done", ![r].t5 = "pending",
                                      ![r].at5 = now + KillGraceMs]
     ELSE /\ timers' = [timers EXCEPT ![r].t10 = "done"]
          /\ UNCHANGED child
  /\ UNCHANGED <<now, server, runs, activeProcesses, promise, resp, nchunks, last, fsVars>>

\* The second timer's callback: 5 seconds later, SIGKILL to this call's child
\* if the map still has this call's processId.
Timeout5(r) ==
  /\ server # "exited"
  /\ timers[r].t5 = "pending"
  /\ now >= timers[r].at5
  /\ timers' = [timers EXCEPT ![r].t5 = "done"]
  /\ IF child[r].processId \in DOMAIN activeProcesses
     THEN child' = [child EXCEPT ![r] = Signal(@, "SIGKILL", "timeout")]
     ELSE UNCHANGED child
  /\ UNCHANGED <<now, server, runs, activeProcesses, promise, resp, nchunks, last, fsVars>>

\* the deadlines of the timers that have not run
Deadlines ==
  {timers[r].at10 : r \in {q \in Runs : timers[q].t10 = "pending"}} \cup
  {timers[r].at5 : r \in {q \in Runs : timers[q].t5 = "pending"}}

\* A millisecond passes.  No timer is left behind: a timer runs at its
\* deadline.
Tick ==
  /\ server # "exited"
  /\ now < MaxSpawnTime
  /\ \A d \in Deadlines : now < d
  /\ now' = now + 1
  /\ UNCHANGED <<server, runs, child, activeProcesses, timers, promise, resp, nchunks, last, fsVars>>

\* Time passes up to the next timer's deadline.
AdvanceToTimer ==
  /\ server # "exited"
  /\ Deadlines # {}
  /\ \A d \in Deadlines : now < d
  /\ now' = CHOOSE d \in Deadlines : \A e \in Deadlines : d <= e
  /\ UNCHANGED <<server, runs, child, activeProcesses, timers, promise, resp, nchunks, last, fsVars>>

\* activeProcesses.forEach(process => process.kill('SIGTERM'))
KillEach(by) ==
  [r \in Runs |-> IF r \in Tracked THEN Signal(child[r], "SIGTERM", by) ELSE child[r]]

KillReplyCountsChildren ==
  [ep |-> "kill", code |-> 200, status |-> "success",
   killed |-> Cardinality({r \in Runs : child[r].st \in {"running", "failing"}})]

\* the reply of POST /kill: `killed` counts the iterations of the forEach
KillReply ==
  [ep |-> "kill", code |-> 200, status |-> "success",
   killed |-> Cardinality(DOMAIN activeProcesses)]

\* POST /kill
KillRequest ==
  /\ server = "listening"
  /\ \A r \in Tracked : Requested(child[r]) < MaxSignals
  /\ child' = KillEach("kill")
  /\ last' = KillReply
  /\ UNCHANGED <<now, server, runs, activeProcesses, timers, promise, resp, nchunks, fsVars>>

\* GET /health
HealthRequest ==
  /\ server = "listening"
  /\ last' = [ep |-> "health", code |-> 200, status |-> "healthy",
              activeProcesses |-> Cardinality(DOMAIN activeProcesses),
              currentWorkingDir |-> currentWorkingDir]
  /\ UNCHANGED <<now, server, runs, child, activeProcesses, timers, promise, resp, nchunks, fsVars>>

\* process.on('SIGINT', ...): SIGTERM to every tracked child, then server.close
OnSigint ==
  /\ server # "exited"
  /\ \A r \in Tracked : Requested(child[r]) < MaxSignals
  /\ child' = KillEach("shutdown")
  /\ server' = "closing"
  /\ UNCHANGED <<now, runs, activeProcesses, timers, promise, resp, nchunks, last, fsVars>>

\* process.on('SIGTERM', ...): server.close
OnSigterm ==
  /\ server # "exited"
  /\ server' = "closing"
  /\ UNCHANGED <<now, runs, child, activeProcesses, timers, promise, resp, nchunks, last, fsVars>>

\* the callback of server.close, once no request is open: process.exit(0)
AgentExit ==
  /\ server = "closing"
  /\ \A r \in Runs : runs[r].st = "received" => resp[r] # <<>>
  /\ server' = "exited"
  /\ UNCHANGED <<now, runs, child, activeProcesses, timers, promise, resp, nchunks, last, fsVars>>

\* ------------------------------------------------------------------ paths

\* the path made of the names segs: "/" before each name
RECURSIVE JoinSegments(_)
JoinSegments(segs) ==
  IF segs = <<>> THEN <<>>
  ELSE <<"/">> \o Head(segs) \o JoinSegments(Tail(segs))

\* what path.normalize does with the pieces of a path: "" and "." are
\* dropped, ".." drops the name before it (and nothing at the root)
RECURSIVE NormalizeSegments(_, _)
NormalizeSegments(segs, acc) ==
  IF segs = <<>> THEN acc
  ELSE LET h == Head(segs) IN
       IF h = <<>> \/ h = <<".">>
       THEN NormalizeSegments(Tail(segs), acc)
       ELSE IF h = <<".", ".">>
       THEN NormalizeSegments(Tail(segs),
                              IF acc = <<>> THEN acc ELSE SubSeq(acc, 1, Len(acc) - 1))
       ELSE NormalizeSegments(Tail(segs), Append(acc, h))

\* the names of an absolute path
SegmentsOf(p) == NormalizeSegments(Split(p, "/"), <<>>)

AbsolutePath(segs) == IF segs = <<>> THEN <<"/">> ELSE JoinSegments(segs)

IsAbsolute(p) == p # <<>> /\ p[1] = "/"

\* path.resolve(from, to), from an absolute path
PathResolve(from, to) ==
  AbsolutePath(SegmentsOf(IF IsAbsolute(to) THEN to ELSE from \o <<"/">> \o to))

\* path.dirname of an absolute, normalized path
PathDirname(p) ==
  LET segs == SegmentsOf(p)
  IN IF segs = <<>> THEN <<"/">> ELSE AbsolutePath(SubSeq(segs, 1, Len(segs) - 1))

\* the directories above an absolute path, the root included
Ancestors(p) ==
  LET segs == SegmentsOf(p)
  IN {AbsolutePath(SubSeq(segs, 1, n)) : n \in 0..(Len(segs) - 1)}

\* ------------------------------------------------------------ file system

\* The text of a file: the characters head followed by pad more characters
\* (a long text is not spelled out).
Text(s) == [head |-> s, pad |-> 0]
Filled(n) == [head |-> <<>>, pad |-> n]

\* content.length
Length(c) == Len(c.head) + c.pad

NameW == <<"w">>
NameP == <<"p">>
NameAJs == <<"a", ".", "j", "s">>
NameBCss == <<"b", ".", "c", "s", "s">>
NameHidden == <<".", "h", "i", "d", "d", "e", "n">>
NameNodeModules == <<"n","o","d","e","_","m","o","d","u","l","e","s">>
NameIgnoredJs == <<"i","g","n","o","r","e","d",".","j","s">>
NameNotesMd == <<"n","o","t","e","s",".","m","d">>

DirRoot == <<"/">>
DirW == JoinSegments(<<NameW>>)
DirP == JoinSegments(<<NameW, NameP>>)
DirNodeModules == JoinSegments(<<NameW, NameP, NameNodeModules>>)
FileNotes == JoinSegments(<<NameW, NameNotesMd>>)
PathMissing == JoinSegments(<<NameW, <<"n", "o">> >>)

\* the project of the end-to-end scenario, /w/p, beside a file /w/notes.md
InitialDirs == {DirRoot, DirW, DirP, DirNodeModules}
InitialFiles ==
  [f \in {JoinSegments(<<NameW, NameP, NameAJs>>),
          JoinSegments(<<NameW, NameP, NameBCss>>),
          JoinSegments(<<NameW, NameP, NameHidden>>),
          JoinSegments(<<NameW, NameP, NameNodeModules, NameIgnoredJs>>),
          FileNotes} |-> Text(<<"x">>)]

\* fs.existsSync
ExistsSync(p) == p \in fsDirs \/ p \in DOMAIN fsFiles

\* fs.statSync(p).isDirectory()
IsDirectory(p) == p \in fsDirs

\* --------------------------------------------------------- readProjectFiles

SUPPORTED_EXTENSIONS ==
  { <<".","j","s">>, <<".","t","s">>, <<".","j","s","x">>, <<".","t","s","x">>,
    <<".","j","s","o","n">>, <<".","c","s","s">>, <<".","s","c","s","s">>,
    <<".","h","t","m","l">>, <<".","m","d">>, <<".","v","u","e">>,
    <<".","p","y">>, <<".","p","h","p">> }

MaxContentLengthExclusive == 1024 * 1024 - 1

\* content.length <= 1024 * 1024
MaxContentLength == 1024 * 1024

\* fs.readdirSync(dirPath): the entries of the directory
Entries(dirPath) ==
  {e \in fsDirs \cup DOMAIN fsFiles : e # DirRoot /\ PathDirname(e) = dirPath}

\* entry.name
BaseName(p) == LET segs == SegmentsOf(p) IN segs[Len(segs)]

\* path.extname: from the last "." of the name on; nothing when the name has
\* no "." or only begins with one
ExtName(name) ==
  LET dots == {i \in 1..Len(name) : name[i] = "."}
  IN IF dots = {} THEN <<>>
     ELSE LET i == CHOOSE d \in dots : \A e \in dots : e <= d
          IN IF i = 1 THEN <<>> ELSE SubSeq(name, i, Len(name))

SkippedNameHiddenOnly(name) == StartsWith(name, <<".">>)

\* the entries the scan passes over: hidden ones and build directories
SkippedName(name) ==
  \/ StartsWith(name, <<".">>)
  \/ name = NameNodeModules
  \/ name = <<"d","i","s","t">>
  \/ name = <<"b","u","i","l","d">>
  \/ name = <<".","n","e","x","t">>
  \/ name = <<"c","o","v","e","r","a","g","e">>

\* the number of leading names two paths share
RECURSIVE CommonPrefixLen(_, _)
CommonPrefixLen(a, b) ==
  IF a # <<>> /\ b # <<>> /\ Head(a) = Head(b)
  THEN 1 + CommonPrefixLen(Tail(a), Tail(b))
  ELSE 0

\* names joined with "/" and none before the first
RECURSIVE JoinRelative(_)
JoinRelative(segs) ==
  IF segs = <<>> THEN <<>>
  ELSE IF Len(segs) = 1 THEN Head(segs)
  ELSE Head(segs) \o <<"/">> \o JoinRelative(Tail(segs))

\* path.relative(from, to) of two absolute paths
PathRelative(from, to) ==
  LET f == SegmentsOf(from)
      t == SegmentsOf(to)
      n == CommonPrefixLen(f, t)
  IN JoinRelative([i \in 1..(Len(f) - n) |-> <<".", ".">>] \o SubSeq(t, n + 1, Len(t)))

\* path.dirname of a relative path
RelativeDirname(rel) ==
  LET slashes == {i \in 1..Len(rel) : rel[i] = "/"}
  IN IF slashes = {} THEN <<".">>
     ELSE SubSeq(rel, 1, (CHOOSE d \in slashes : \A e \in slashes : e <= d) - 1)

\* the record the scan pushes for a file
FileRecord(root, fullPath) ==
  LET relativePath == PathRelative(root, fullPath)
  IN [name |-> BaseName(fullPath),
      path |-> relativePath,
      content |-> fsFiles[fullPath],
      size |-> Length(fsFiles[fullPath]),
      extension |-> ToLowerCase(ExtName(BaseName(fullPath))),
      directory |-> RelativeDirname(relativePath)]

\* fs.readdirSync(p) and fs.readFileSync(p) throw (EACCES): the catch logs
\* and the scan goes on without the entry
ReadThrows(p) == p \in fsUnreadable

\* readProjectFiles(dirPath, maxDepth, currentDepth), with currentWorkingDir
\* (root) as the scan reads it; ReadEntries is its loop over the entries,
\* which readdirSync hands over in an order of its own.
RECURSIVE readProjectFiles(_, _, _, _)
RECURSIVE ReadEntries(_, _, _, _)
ReadEntries(root, entries, maxDepth, currentDepth) ==
  IF entries = {} THEN <<>>
  ELSE LET e == CHOOSE x \in entries : TRUE
           rest == ReadEntries(root, entries \ {e}, maxDepth, currentDepth)
       IN IF SkippedName(BaseName(e)) THEN rest
          ELSE IF e \in fsDirs
          THEN readProjectFiles(root, e, maxDepth, currentDepth + 1) \o rest
          ELSE IF /\ ToLowerCase(ExtName(BaseName(e))) \in SUPPORTED_EXTENSIONS
                  /\ ~ReadThrows(e)
                  /\ Length(fsFiles[e]) <= MaxContentLength
          THEN <<FileRecord(root, e)>> \o rest
          ELSE rest

ReadProjectFilesDepthInclusive(root, dirPath, maxDepth, currentDepth) ==
  IF currentDepth > maxDepth THEN <<>>
  ELSE IF ReadThrows(dirPath) THEN <<>>
  ELSE ReadEntries(root, Entries(dirPath), maxDepth, currentDepth)

ReadProjectFilesStopsEarly(root, dirPath, maxDepth, currentDepth) ==
  IF currentDepth + 1 >= maxDepth THEN <<>>
  ELSE IF ReadThrows(dirPath) THEN <<>>
  ELSE ReadEntries(root, Entries(dirPath), maxDepth, currentDepth)

ReadProjectFilesAborts(root, dirPath, maxDepth, currentDepth) ==
  IF currentDepth >= maxDepth THEN <<>>
  ELSE IF ReadThrows(dirPath) \/ \E e \in Entries(dirPath) : ReadThrows(e) THEN <<>>
  ELSE ReadEntries(root, Entries(dirPath), maxDepth, currentDepth)

readProjectFiles(root, dirPath, maxDepth, currentDepth) ==
  IF currentDepth >= maxDepth THEN <<>>
  ELSE IF ReadThrows(dirPath) THEN <<>>
  ELSE ReadEntries(root, Entries(dirPath), maxDepth, currentDepth)

\* the default of readProjectFiles' maxDepth
DefaultMaxDepth == 3

RECURSIVE SumSizes(_)
SumSizes(files) ==
  IF files = <<>> THEN 0 ELSE Head(files).size + SumSizes(Tail(files))

GetProjectStructureSizeCountsFiles(root, dirPath) ==
  LET files == readProjectFiles(root, dirPath, DefaultMaxDepth, 0)
      dirs == {files[i].directory : i \in 1..Len(files)}
      filesByDirectory ==
        [d \in dirs |-> SelectSeq(files, LAMBDA f : f.directory = d)]
  IN [success |-> TRUE,
      projectPath |-> dirPath,
      files |-> files,
      filesByDirectory |-> filesByDirectory,
      stats |-> [totalFiles |-> Len(files),
                 totalSize |-> Len(files),
                 directories |-> Cardinality(DOMAIN filesByDirectory)]]

\* getProjectStructure(dirPath), with currentWorkingDir (root) as the scan
\* reads it
getProjectStructure(root, dirPath) ==
  LET files == readProjectFiles(root, dirPath, DefaultMaxDepth, 0)
      dirs == {files[i].directory : i \in 1..Len(files)}
      filesByDirectory ==
        [d \in dirs |-> SelectSeq(files, LAMBDA f : f.directory = d)]
  IN [success |-> TRUE,
      projectPath |-> dirPath,
      files |-> files,
      filesByDirectory |-> filesByDirectory,
      stats |-> [totalFiles |-> Len(files),
                 totalSize |-> SumSizes(files),
                 directories |-> Cardinality(DOMAIN filesByDirectory)]]

\* ------------------------------------------------------- GET /list-files

\* Inside the request handler `path` is the constant the handler declares,
\* the pathname of the request's URL, not the path module of the file's top:
\* a string, which has no method resolve.
HandlerPathIsModule == FALSE

\* the values of the query's path
ListQueries == {Undefined, Str(DirP), Str(DirW), Str(FileNotes), Str(PathMissing)}

\* query.path || currentWorkingDir
ProjectPathOf(query) == IF Falsy(query) THEN currentWorkingDir ELSE query.v

ListReply(query, code, body) ==
  [ep |-> "list-files", query |-> query, code |-> code, body |-> body]

ListFilesRequestAssignsFirst(query) ==
  LET projectPath == ProjectPathOf(query)
  IN /\ server = "listening"
     /\ currentWorkingDir' = projectPath
     /\ last' = ListReply(query, IF ~ExistsSync(projectPath) THEN 404
                                 ELSE IF ~IsDirectory(projectPath) THEN 400 ELSE 500,
                          [status |-> "failed"])
     /\ UNCHANGED <<fsDirs, fsFiles, fsUnreadable, saves, pmVars>>

\* GET /list-files
ListFilesRequest(query) ==
  LET projectPath == ProjectPathOf(query)
  IN /\ server = "listening"
     /\ IF ~ExistsSync(projectPath)
        THEN /\ last' = ListReply(query, 404, [error |-> "Directory not found",
                                               path |-> projectPath, status |-> "failed"])
             /\ UNCHANGED currentWorkingDir
        ELSE IF ~IsDirectory(projectPath)
        THEN /\ last' = ListReply(query, 400, [error |-> "Path is not a directory",
                                               path |-> projectPath, status |-> "failed"])
             /\ UNCHANGED currentWorkingDir
        ELSE IF ~HandlerPathIsModule
        THEN \* path.resolve(projectPath) throws a TypeError, caught below
             /\ last' = ListReply(query, 500, [error |-> "path.resolve is not a function",
                                               status |-> "failed"])
             /\ UNCHANGED currentWorkingDir
        ELSE /\ currentWorkingDir' = PathResolve(DirRoot, projectPath)
             /\ last' = ListReply(query, 200,
                          [r \in {"status"} \cup DOMAIN getProjectStructure(
                                    PathResolve(DirRoot, projectPath),
                                    PathResolve(DirRoot, projectPath)) |->
                             IF r = "status" THEN "success"
                             ELSE getProjectStructure(
                                    PathResolve(DirRoot, projectPath),
                                    PathResolve(DirRoot, projectPath))[r]])
     /\ UNCHANGED <<fsDirs, fsFiles, fsUnreadable, saves, pmVars>>

\* --------------------------------------------------------- writeProjectFile

\* fullPath.startsWith(currentWorkingDir)
Confined(fullPath, root) == StartsWith(fullPath, root)

\* What fs.mkdirSync(dir, {recursive: true}) and fs.writeFileSync throw:
\* a file where a directory is needed, or a directory where the file goes.
WriteError(fullPath) ==
  IF \E a \in Ancestors(fullPath) : a \in DOMAIN fsFiles
  THEN "ENOTDIR: not a directory"
  ELSE IF fullPath \in fsDirs
  THEN "EISDIR: illegal operation on a directory"
  ELSE "none"

\* writeProjectFile(filePath, content): its result, and the file system after
WriteResult(filePath, content) ==
  LET fullPath == PathResolve(currentWorkingDir, filePath)
  IN IF ~Confined(fullPath, currentWorkingDir)
     THEN [success |-> FALSE, error |-> "File path is outside of allowed directory",
           path |-> filePath]
     ELSE IF WriteError(fullPath) # "none"
     THEN [success |-> FALSE, error |-> WriteError(fullPath), path |-> filePath]
     ELSE [success |-> TRUE, path |-> filePath, size |-> Len(content)]

WriteProjectFileNoMkdir(filePath, content) ==
  IF WriteResult(filePath, content).success
  THEN LET fullPath == PathResolve(currentWorkingDir, filePath)
       IN /\ fsDirs' = fsDirs
          /\ fsFiles' = [f \in DOMAIN fsFiles \cup {fullPath} |->
                           IF f = fullPath THEN Text(content) ELSE fsFiles[f]]
  ELSE UNCHANGED <<fsDirs, fsFiles>>

writeProjectFile(filePath, content) ==
  IF WriteResult(filePath, content).success
  THEN LET fullPath == PathResolve(currentWorkingDir, filePath)
       IN /\ fsDirs' = fsDirs \cup Ancestors(fullPath)
          /\ fsFiles' = [f \in DOMAIN fsFiles \cup {fullPath} |->
                           IF f = fullPath THEN Text(content) ELSE fsFiles[f]]
  ELSE UNCHANGED <<fsDirs, fsFiles>>

\* ------------------------------------------------------- POST /save-file

Saves == 1..MaxSaves

PathNew == <<"x", ".", "j", "s">>
PathDeep == <<"s", "/", "n", "/", "x", ".", "j", "s">>
PathSiblingOfP == <<".", ".", "/", "p", "2", "/", "e", ".", "j", "s">>
PathSiblingOfW == <<".", ".", "/", "w", "2", "/", "e", ".", "j", "s">>
PathUnderFile == <<"a", ".", "j", "s", "/", "x", ".", "j", "s">>
PathOfDirectory == NameNodeModules

\* The body of a POST /save-file: text JSON.parse rejects, or an object with
\* any filePath and content.
SaveBodies ==
  {[json |-> FALSE, filePath |-> Undefined, content |-> Undefined]} \cup
  [json : {TRUE},
   filePath : {Undefined, Num(42), Str(<<>>), Str(PathNew), Str(PathDeep),
               Str(PathSiblingOfP), Str(PathSiblingOfW), Str(PathUnderFile),
               Str(PathOfDirectory)},
   content : {Undefined, Str(<<"h", "i">>)}]

NoSave ==
  [st |-> "idle",
   body |-> [json |-> FALSE, filePath |-> Undefined, content |-> Undefined],
   reply |-> NoResponse]

\* POST /save-file arrives: the handler registers 'data' and 'end' and returns
SaveRequest(s) ==
  /\ server = "listening"
  /\ saves[s].st = "idle"
  /\ \A q \in 1..(s - 1) : saves[q].st # "idle"
  /\ saves' = [saves EXCEPT ![s].st = "open"]
  /\ UNCHANGED <<currentWorkingDir, fsDirs, fsFiles, fsUnreadable, last, pmVars>>

\* the reply req.on('end', ...) of /save-file writes
SaveReply(body) ==
  IF ~body.json
  THEN Reply(400, [error |-> "Invalid JSON", status |-> "failed"])
  ELSE IF Falsy(body.filePath) \/ ~IsString(body.filePath)
  THEN Reply(400, [error |-> "filePath is required and must be a string",
                   status |-> "failed"])
  ELSE IF ~IsString(body.content)
  THEN Reply(400, [error |-> "content must be a string", status |-> "failed"])
  ELSE LET result == WriteResult(body.filePath.v, body.content.v)
       IN IF result.success
          THEN Reply(200, [success |-> TRUE, path |-> result.path,
                           size |-> result.size, status |-> "success"])
          ELSE Reply(500, [error |-> result.error, status |-> "failed"])

\* the body of a POST /save-file has arrived: req.on('end', ...)
SaveEnd(s, body) ==
  /\ server # "exited"
  /\ saves[s].st = "open"
  /\ saves' = [saves EXCEPT ![s] = [st |-> "done", body |-> body, reply |-> SaveReply(body)]]
  /\ IF body.json /\ ~Falsy(body.filePath) /\ IsString(body.filePath) /\ IsString(body.content)
     THEN writeProjectFile(body.filePath.v, body.content.v)
     ELSE UNCHANGED <<fsDirs, fsFiles>>
  /\ UNCHANGED <<currentWorkingDir, fsUnreadable, last, pmVars>>

\* ------------------------------------------------- the process manager

InitPm ==
  /\ now = 0
  /\ server = "listening"
  /\ runs = [r \in Runs |-> [st |-> "idle", body |-> [json |-> FALSE, command |-> Undefined]]]
  /\ child = [r \in Runs |-> NoChild]
  /\ activeProcesses = << >>
  /\ timers = [r \in Runs |-> NoTimers]
  /\ promise = [r \in Runs |-> [st |-> "none", value |-> Undefined]]
  /\ resp = [r \in Runs |-> <<>>]
  /\ nchunks = 0
  /\ last = NoResponse

\* the agent was started in /w and no save-file request is open
InitFsIdle ==
  /\ currentWorkingDir = DirW
  /\ fsDirs = InitialDirs
  /\ fsFiles = InitialFiles
  /\ fsUnreadable = {}
  /\ saves = [s \in Saves |-> NoSave]

Init == InitPm /\ InitFsIdle

\* what run requests and their processes do
RunEvents ==
  \/ \E r \in Runs, body \in RunBodies, outcome \in {"running", "failing"} :
        RunRequest(r, body, outcome)
  \/ \E r \in Runs, chunk \in OutputChunks : ChildStdout(r, chunk)
  \/ \E r \in Runs, chunk \in OutputChunks : ChildStderr(r, chunk)
  \/ \E r \in Runs, code \in OwnExitCodes \cup {Null, FailedSpawnCode} : ChildClose(r, code)
  \/ \E r \in Runs : ChildError(r)

\* the clock and the timers
TimerEvents ==
  \/ \E r \in Runs : Timeout10(r)
  \/ \E r \in Runs : Timeout5(r)
  \/ Tick
  \/ AdvanceToTimer

\* POST /kill and the agent's own shutdown
KillEvents ==
  \/ KillRequest
  \/ OnSigint
  \/ OnSigterm
  \/ AgentExit

\* Run requests, their processes and their timers.
Next == RunEvents \/ TimerEvents

Spec == Init /\ [][Next]_vars

\* Run requests and their processes, POST /kill and shutdown.
NextKill == RunEvents \/ KillEvents \/ Tick

SpecKill == Init /\ [][NextKill]_vars

\* All of the process manager at once.
NextAll == RunEvents \/ TimerEvents \/ KillEvents

SpecAll == Init /\ [][NextAll]_vars

\* What the event loop and the operating system guarantee: a timer whose
\* deadline has come runs, time reaches the next deadline, an emitted event
\* is handled, and a process that was sent SIGKILL ends.  A process that no
\* one kills may run forever.
Fairness ==
  /\ WF_vars(AdvanceToTimer)
  /\ \A r \in Runs :
       /\ WF_vars(Timeout10(r))
       /\ WF_vars(Timeout5(r))
       /\ WF_vars(ChildError(r))
       /\ WF_vars(\E code \in OwnExitCodes \cup {Null, FailedSpawnCode} :
                     /\ child[r].st = "errored" \/ child[r].sigs[<<"SIGKILL", "timeout">>] > 0
                     /\ ChildClose(r, code))

FairSpec == Spec /\ Fairness

\* ------------------------------------------------------------------ claims

TermByKill == <<"SIGTERM", "kill">>
TermByShutdown == <<"SIGTERM", "shutdown">>
TermByTimeout == <<"SIGTERM", "timeout">>
KillByTimeout == <<"SIGKILL", "timeout">>

\* s contains sub when letter case is ignored
ContainsAnyCase(s, sub) ==
  \E i \in 0..(Len(s) - Len(sub)) :
     \A k \in 1..Len(sub) : ToLowerChar(s[i + k]) = ToLowerChar(sub[k])

\* the substrings the documentation names: rm -rf, del /f, format, fdisk, dd if=
DenyListedSubstrings ==
  { <<"r","m"," ","-","r","f">>, <<"d","e","l"," ","/","f">>,
    <<"f","o","r","m","a","t">>, <<"f","d","i","s","k">>,
    <<"d","d"," ","i","f","=">> }

\* request r has sent a command holding a deny-listed substring
SentDenyListed(r) ==
  /\ runs[r].st = "received"
  /\ runs[r].body.json
  /\ IsString(runs[r].body.command)
  /\ \E d \in DenyListedSubstrings : ContainsAnyCase(runs[r].body.command.v, d)

\* request r has sent a command that passes validation and the deny-list
SentPassing(r) ==
  /\ runs[r].st = "received"
  /\ runs[r].body.json
  /\ IsString(runs[r].body.command)
  /\ runs[r].body.command.v # <<>>
  /\ ~ \E d \in DenyListedSubstrings : ContainsAnyCase(runs[r].body.command.v, d)

\* C1: a POST /run whose command contains a deny-listed substring in any
\* letter case is answered 403 'Command rejected for security reasons',
\* status 'failed'; executeCommand is not invoked (no promise, no child, no
\* timer) and the step that handles it leaves the registry and every child
\* as they were.
C1_DenyListedRejected ==
  /\ [](\A r \in Runs :
          SentDenyListed(r) =>
            /\ resp[r] = <<CommandRejected>>
            /\ promise[r].st = "none"
            /\ child[r] = NoChild
            /\ timers[r] = NoTimers
            /\ r \notin Tracked)
  /\ [][\A r \in Runs :
          (runs[r].st = "idle" /\ SentDenyListed(r)') =>
             (activeProcesses' = activeProcesses /\ child' = child)]_vars

\* C1 witness: 'sudo RM -RF /' was rejected while another request's process
\* is tracked.
C1_Witness ==
  \E r \in Runs :
     /\ SentDenyListed(r)
     /\ runs[r].body.command = Str(CmdRmRfUpper)
     /\ resp[r] = <<CommandRejected>>
     /\ activeProcesses # << >>

\* request r has its one response, a CommandResult whose status is 'success'
\* exactly for exit code 0 and whose exit code is the one its process
\* ended with
AnsweredWithExitCode(r) ==
  /\ Len(resp[r]) = 1
  /\ resp[r][1].code = 200
  /\ resp[r][1].body.status = "success" <=> resp[r][1].body.exitCode = Num(0)
  /\ (child[r].events = <<"close">>) => resp[r][1].body.exitCode = child[r].code

\* C2: every run request whose command passes validation and the deny-list
\* eventually receives a CommandResult with the process's exit code and
\* status 'success' iff that code is 0.
C2_EveryRunAnswered ==
  \A r \in Runs : [](SentPassing(r) => <>AnsweredWithExitCode(r))

\* C3: a process still running once its 10 minute timer has run was sent
\* SIGTERM by it, and one still running 5 seconds after that was sent
\* SIGKILL.
C3_TimeoutKills ==
  \A r \in Runs :
     child[r].st = "running" =>
       /\ timers[r].t10 = "done" => child[r].sigs[TermByTimeout] > 0
       /\ (/\ timers[r].t10 = "done"
           /\ timers[r].t5 # "pending"
           /\ now >= child[r].processId + CommandTimeoutMs + KillGraceMs)
          => child[r].sigs[KillByTimeout] > 0

\* a step in which POST /kill answers or signals
KillStep ==
  \/ last' # last /\ last'.ep = "kill"
  \/ \E r \in Runs : child'[r].sigs[TermByKill] # child[r].sigs[TermByKill]

\* C5: POST /kill sends one SIGTERM to every child the registry holds at the
\* call and to no other, reports the registry's size at the call, and leaves
\* the registry as it was (an empty registry: 0, and nothing changes).
C5_KillSignalsTracked ==
  [][KillStep =>
       /\ last' = [ep |-> "kill", code |-> 200, status |-> "success",
                   killed |-> Cardinality(DOMAIN activeProcesses)]
       /\ activeProcesses' = activeProcesses
       /\ \A r \in Runs :
            /\ child'[r].sigs[TermByKill] =
                 child[r].sigs[TermByKill] + (IF r \in Tracked THEN 1 ELSE 0)
            /\ child'[r].st = child[r].st]_vars

\* C5 witness: a child was signalled by two POST /kill and is still tracked,
\* and the latest POST /kill reported the one entry of the registry.
C5_Witness ==
  \E r \in Tracked :
     /\ child[r].sigs[TermByKill] = 2
     /\ last = [ep |-> "kill", code |-> 200, status |-> "success", killed |-> 1]
     /\ Cardinality(DOMAIN activeProcesses) = 1

\* C8: the step in which the agent, on SIGINT or SIGTERM, closes the
\* listening socket sends SIGTERM to every tracked child.
C8_ShutdownSignalsTracked ==
  [][(server = "listening" /\ server' = "closing") =>
       \A r \in Tracked :
          child'[r].sigs[TermByShutdown] = child[r].sigs[TermByShutdown] + 1]_vars

\* C9: a run request never has more than one response and a response once
\* sent never changes; a request whose process was spawned has none before
\* the process's first 'close' or 'error' and from that event on has the
\* result of that event, whatever event follows.  (A spawn that throws
\* starts no process.)
C9_OneResponseOfFirstEvent ==
  /\ [](\A r \in Runs :
          /\ Len(resp[r]) <= 1
          /\ child[r].st # "none" =>
               IF child[r].events = <<>>
               THEN resp[r] = <<>>
               ELSE /\ Len(resp[r]) = 1
                    /\ resp[r][1].code = 200
                    /\ resp[r][1].body =
                         IF child[r].events[1] = "error"
                         THEN [command |-> runs[r].body.command.v,
                               output |-> Trim(child[r].out),
                               error |-> <<"Process error: ", SpawnErrorMessage>>,
                               exitCode |-> Num(-1),
                               status |-> "failed"]
                         ELSE [command |-> runs[r].body.command.v,
                               output |-> Trim(child[r].out),
                               error |-> Trim(child[r].err),
                               exitCode |-> child[r].code,
                               status |-> IF child[r].code = Num(0)
                                          THEN "success" ELSE "failed"])
  /\ [][\A r \in Runs : resp[r] # <<>> => resp'[r] = resp[r]]_vars

\* C9 witness: both events have fired, 'error' first, and the response is
\* the 'error' handler's.
C9_Witness ==
  \E r \in Runs :
     /\ child[r].events = <<"error", "close">>
     /\ Len(resp[r]) = 1
     /\ resp[r][1].body.exitCode = Num(-1)

\* the process of request r failed to start: spawn threw, or 'error' came
FailedToStart(r) ==
  \/ SentPassing(r) /\ Trim(runs[r].body.command.v) = <<>>
  \/ child[r].events # <<>> /\ child[r].events[1] = "error"

\* C10: when the process fails to start the promise is resolved, never
\* rejected: the child is not in the registry, the request has its response,
\* HTTP 200, with exit code -1, status 'failed' and the error's message in
\* the error field.
C10_FailedStartResolved ==
  \A r \in Runs :
     FailedToStart(r) =>
       /\ r \notin Tracked
       /\ promise[r].st = "settled"
       /\ Len(resp[r]) = 1
       /\ resp[r][1].code = 200
       /\ resp[r][1].body.exitCode = Num(-1)
       /\ resp[r][1].body.status = "failed"
       /\ resp[r][1].body.error \in
            {<<"Process error: ", SpawnErrorMessage>>,
             <<"Failed to execute command: ", EmptyFileMessage>>}

\* C10 witness: one spawn threw, another failed with 'error' while it shared
\* its processId with nothing, and both requests have their 200.
C10_Witness ==
  \E r, q \in Runs :
     /\ FailedToStart(r) /\ child[r].st = "none"
     /\ FailedToStart(q) /\ child[q].st = "errored"
     /\ resp[r] # <<>> /\ resp[q] # <<>>

\* ------------------------------------------------------- the file operations

InitFs ==
  /\ currentWorkingDir \in {DirW, DirP}
  /\ fsDirs = InitialDirs
  /\ fsFiles = InitialFiles
  /\ fsUnreadable = {}
  /\ saves = [s \in Saves |-> NoSave]

InitFiles == InitPm /\ InitFs

\* GET /health, GET /list-files and POST /save-file
NextFs ==
  \/ HealthRequest
  \/ \E query \in ListQueries : ListFilesRequest(query)
  \/ \E s \in Saves : SaveRequest(s)
  \/ \E s \in Saves, body \in SaveBodies : SaveEnd(s, body)

SpecFs == InitFiles /\ [][NextFs]_vars

\* ----------------------------------------------- claims on file operations

\* full is root or lies below it: the names of root are the first names of full
InsideDirectory(full, root) ==
  LET f == SegmentsOf(full)
      d == SegmentsOf(root)
  IN Len(d) <= Len(f) /\ SubSeq(f, 1, Len(d)) = d

\* the body of save request s, handled in this step, is well-formed
SaveHandled(s) ==
  /\ saves[s].st = "open"
  /\ saves'[s].st = "done"
  /\ saves'[s].body.json
  /\ IsString(saves'[s].body.filePath)
  /\ saves'[s].body.filePath.v # <<>>
  /\ IsString(saves'[s].body.content)

\* C4: a save-file whose filePath resolves, against the current working
\* directory, to a place that is not inside that directory is answered 500,
\* status 'failed', and no directory is made and no file written.
C4_OutsideRejected ==
  [][\A s \in Saves :
       (/\ SaveHandled(s)
        /\ ~InsideDirectory(PathResolve(currentWorkingDir, saves'[s].body.filePath.v),
                            currentWorkingDir))
       => /\ saves'[s].reply.code = 500
          /\ saves'[s].reply.body.status = "failed"
          /\ fsDirs' = fsDirs
          /\ fsFiles' = fsFiles]_vars

\* this step answers a GET /list-files whose path names a directory
ListedDirectory ==
  /\ last' # last
  /\ last'.ep = "list-files"
  /\ IsString(last'.query)
  /\ IsDirectory(last'.query.v)

\* C6: GET /list-files with the path of an existing directory is answered
\* 200, success true, status 'success', with the scan of that directory as
\* files; for /w/p as it is at first (a.js, b.css, .hidden,
\* node_modules/ignored.js) these are a.js and b.css and stats.totalFiles is 2.
C6_ListFilesAnswersScan ==
  [][ListedDirectory =>
       /\ last'.code = 200
       /\ last'.body.success = TRUE
       /\ last'.body.status = "success"
       /\ last'.body.files =
            readProjectFiles(last'.query.v, last'.query.v, DefaultMaxDepth, 0)
       /\ (last'.query.v = DirP /\ fsDirs = InitialDirs /\ fsFiles = InitialFiles) =>
            /\ {last'.body.files[i].name : i \in 1..Len(last'.body.files)}
                 = {NameAJs, NameBCss}
            /\ last'.body.stats.totalFiles = 2]_vars

\* C7: the step that answers a GET /list-files for an existing directory
\* leaves currentWorkingDir at the resolved path of that directory.
C7_ListFilesSetsWorkingDir ==
  [][ListedDirectory =>
       currentWorkingDir' = PathResolve(DirRoot, last'.query.v)]_vars

\* ------------------------------------------- signals and who sends them

\* a command the deny-list lets through, spawned
SpawnRequests ==
  \E r \in Runs : RunRequest(r, [json |-> TRUE, command |-> Str(CmdSleep)], "running")

\* Run requests that spawn, their callers aborting them, the processes
\* ending, the timers, POST /kill and shutdown.
NextSignals ==
  \/ SpawnRequests
  \/ \E r \in Runs : RunAbort(r)
  \/ \E r \in Runs, code \in OwnExitCodes \cup {Null} : ChildClose(r, code)
  \/ TimerEvents
  \/ KillEvents

SpecSignals == Init /\ [][NextSignals]_vars

\* the number of child.kill calls on a child
SignalsOf(c) ==
  c.sigs[TermByKill] + c.sigs[TermByShutdown] + c.sigs[TermByTimeout] + c.sigs[KillByTimeout]

\* C11: a step that signals a child is that child's own timer callback, or
\* it is POST /kill or the shutdown handler, which signal every tracked
\* child at once and no other; a step in which a caller aborts its run
\* request signals no child and leaves the registry as it was.
C11_OnlyKillTimeoutShutdownSignal ==
  /\ [][\A r \in Runs :
          SignalsOf(child'[r]) # SignalsOf(child[r]) =>
            \/ /\ timers'[r] # timers[r]
               /\ \A q \in Runs \ {r} : child'[q] = child[q]
               /\ runs' = runs
            \/ /\ \A q \in Runs :
                    SignalsOf(child'[q]) =
                      SignalsOf(child[q]) + (IF q \in Tracked THEN 1 ELSE 0)
               /\ last' = KillReply \/ server' = "closing"
               /\ runs' = runs /\ timers' = timers]_vars
  /\ [][\A r \in Runs :
          (runs[r].st = "received" /\ runs'[r].st = "aborted") =>
             (child' = child /\ activeProcesses' = activeProcesses)]_vars

\* C11 witness: of two tracked children whose callers have both aborted,
\* both were signalled by one POST /kill, and one by its timer as well.
C11_Witness ==
  /\ \A r \in Runs : runs[r].st = "aborted" /\ r \in Tracked
                        /\ child[r].sigs[TermByKill] = 1
  /\ \E r \in Runs : child[r].sigs[TermByTimeout] = 1

\* ----------------------------------------------------------- dispatch

\* req.method and the pathname of req.url
Methods == {"GET", "POST", "OPTIONS"}
Pathnames == {"/health", "/run", "/nowhere"}

RouteOptionsOnEndpoints(method, pathname) ==
  IF pathname = "/health" /\ method = "GET" THEN "health"
  ELSE IF pathname = "/list-files" /\ method = "GET" THEN "list-files"
  ELSE IF pathname = "/save-file" /\ method = "POST" THEN "save-file"
  ELSE IF pathname = "/run" /\ method = "POST" THEN "run"
  ELSE IF pathname = "/kill" /\ method = "POST" THEN "kill"
  ELSE IF method = "OPTIONS" /\ pathname \in {"/health", "/list-files", "/save-file",
                                               "/run", "/kill"}
  THEN "options"
  ELSE "notfound"

\* the branch of the request handler a request takes: the chain of
\* `if (...) {...; return;}` of http.createServer's callback
Route(method, pathname) ==
  IF method = "OPTIONS" THEN "options"
  ELSE IF pathname = "/health" /\ method = "GET" THEN "health"
  ELSE IF pathname = "/list-files" /\ method = "GET" THEN "list-files"
  ELSE IF pathname = "/save-file" /\ method = "POST" THEN "save-file"
  ELSE IF pathname = "/run" /\ method = "POST" THEN "run"
  ELSE IF pathname = "/kill" /\ method = "POST" THEN "kill"
  ELSE "notfound"

\* res.writeHead(200, corsHeaders); res.end()
OptionsReply(method, pathname) ==
  [ep |-> "options", method |-> method, pathname |-> pathname,
   code |-> 200, bodyLength |-> 0]

\* the default 404
NotFoundReply(method, pathname) ==
  [ep |-> "notfound", method |-> method, pathname |-> pathname, code |-> 404,
   body |-> [error |-> "Endpoint not found",
             availableEndpoints |-> <<"/health", "/list-files", "/save-file",
                                      "/run", "/kill">>,
             status |-> "failed"]]

\* a request that no endpoint's branch takes: a preflight, or the default 404
OtherRequest(method, pathname) ==
  /\ server = "listening"
  /\ Route(method, pathname) \in {"options", "notfound"}
  /\ last' = IF Route(method, pathname) = "options"
             THEN OptionsReply(method, pathname)
             ELSE NotFoundReply(method, pathname)
  /\ UNCHANGED <<pmVars, fsVars>>

\* bodies of POST /run: each way of being malformed, a command that is
\* rejected and one that is spawned
HttpRunBodies ==
  {[json |-> FALSE, command |-> Undefined]} \cup
  [json : {TRUE},
   command : {Undefined, Num(42), Str(<<>>), Str(CmdRmRf), Str(CmdSleep)}]

\* bodies of POST /save-file: each way of being malformed, and a new file
HttpSaveBodies ==
  {[json |-> FALSE, filePath |-> Undefined, content |-> Undefined]} \cup
  [json : {TRUE}, filePath : {Undefined, Num(42), Str(<<>>)}, content : {Str(<<"h", "i">>)}] \cup
  [json : {TRUE}, filePath : {Str(PathNew)}, content : {Undefined, Num(42), Str(<<"h", "i">>)}]

HttpListQueries == {Str(DirP), Str(PathMissing)}

\* every endpoint's handler and the requests that match none
NextHttp ==
  \/ HealthRequest
  \/ \E query \in HttpListQueries : ListFilesRequest(query)
  \/ \E s \in Saves : SaveRequest(s)
  \/ \E s \in Saves, body \in HttpSaveBodies : SaveEnd(s, body)
  \/ \E r \in Runs, body \in HttpRunBodies : RunRequest(r, body, "running")
  \/ KillRequest
  \/ \E method \in Methods, pathname \in Pathnames : OtherRequest(method, pathname)

SpecHttp == InitFiles /\ [][NextHttp]_vars

\* ------------------------------------------------- claims on the responses

\* the status field of the latest response that is not a run's or a save's
LastStatus ==
  IF last.ep \in {"list-files", "notfound"} THEN last.body.status ELSE last.status

\* the run and save-file responses all have status 'success' or 'failed'
RunAndSaveStatuses ==
  /\ \A r \in Runs : \A i \in 1..Len(resp[r]) :
        resp[r][i].body.status \in {"success", "failed"}
  /\ \A s \in Saves :
        saves[s].st = "done" => saves[s].reply.body.status \in {"success", "failed"}

MalformedRun(body) ==
  IF ~body.json THEN TRUE
  ELSE IF body.command.t # "string" THEN TRUE
  ELSE body.command.v = <<>>

\* the body of a POST /save-file is malformed: no JSON, filePath is not a
\* non-empty string, or content is not a string
MalformedSave(body) ==
  IF ~body.json THEN TRUE
  ELSE IF body.filePath.t # "string" THEN TRUE
  ELSE body.filePath.v = <<>> \/ body.content.t # "string"

\* this step changes neither the registry, the children, the working
\* directory nor the file system, and the agent goes on listening
NothingTouched ==
  /\ activeProcesses' = activeProcesses
  /\ child' = child
  /\ currentWorkingDir' = currentWorkingDir
  /\ fsDirs' = fsDirs
  /\ fsFiles' = fsFiles
  /\ server' = "listening"

\* C13: a POST /run or POST /save-file with a malformed body is answered 400
\* with status 'failed', and the step that handles it touches nothing.
C13_MalformedAnswered400 ==
  [][/\ \A r \in Runs :
          (runs[r].st = "idle" /\ runs'[r].st = "received" /\ MalformedRun(runs'[r].body)) =>
            /\ Len(resp'[r]) = 1
            /\ resp'[r][1].code = 400
            /\ resp'[r][1].body.status = "failed"
            /\ NothingTouched
     /\ \A s \in Saves :
          (saves[s].st = "open" /\ saves'[s].st = "done" /\ MalformedSave(saves'[s].body)) =>
            /\ saves'[s].reply.code = 400
            /\ saves'[s].reply.body.status = "failed"
            /\ NothingTouched]_vars

\* C13 witness: with a process tracked, a malformed run (an empty command)
\* and a malformed save (content is a number) were answered 400, and a
\* later save was served.
C13_Witness ==
  /\ \E r \in Runs : r \in Tracked
  /\ \E r \in Runs : runs[r].st = "received" /\ runs[r].body.command = Str(<<>>)
                        /\ resp[r] = <<CommandRequired>>
  /\ saves[1].st = "done" /\ saves[1].body.content = Num(42) /\ saves[1].reply.code = 400
  /\ saves[2].st = "done" /\ saves[2].reply.code = 200

\* the (method, pathname) pairs the agent serves
Endpoints ==
  {<<"GET", "/health">>, <<"GET", "/list-files">>, <<"POST", "/save-file">>,
   <<"POST", "/run">>, <<"POST", "/kill">>}

\* C15: a request answered as a preflight or by the default branch: with
\* method OPTIONS it gets an empty 200 whatever its path; otherwise its
\* (method, path) is no endpoint and it gets the 404 that lists the
\* endpoints; either way nothing but the response changes.  No request with
\* method OPTIONS or with a pair that is no endpoint is answered otherwise.
C15_DispatchExact ==
  /\ [][(last' # last /\ last'.ep \in {"options", "notfound"}) =>
          /\ IF last'.method = "OPTIONS"
             THEN last' = [ep |-> "options", method |-> "OPTIONS",
                           pathname |-> last'.pathname, code |-> 200, bodyLength |-> 0]
             ELSE /\ <<last'.method, last'.pathname>> \notin Endpoints
                  /\ last'.ep = "notfound"
                  /\ last'.code = 404
                  /\ last'.body.status = "failed"
                  /\ last'.body.availableEndpoints =
                       <<"/health", "/list-files", "/save-file", "/run", "/kill">>
          /\ UNCHANGED <<pmVars, fsVars>>]_vars
  /\ [](\A method \in Methods, pathname \in Pathnames :
          (method = "OPTIONS" \/ <<method, pathname>> \notin Endpoints) =>
             ENABLED (OtherRequest(method, pathname)))

\* C15 witness: GET /run was answered 404 while a process is tracked
C15_Witness ==
  /\ last = NotFoundReply("GET", "/run")
  /\ \E r \in Runs : r \in Tracked

\* ------------------------------------------------ claims on POST /save-file

\* this step handles save request s, whose path resolves to a place inside
\* the working directory
SavedInside(s) ==
  /\ SaveHandled(s)
  /\ InsideDirectory(PathResolve(currentWorkingDir, saves'[s].body.filePath.v),
                     currentWorkingDir)

\* the save of request s succeeded in this step: answered 200 with success
\* and the content's length, every directory above the file exists, the file
\* holds the content and every other file is as it was
SaveSucceeded(s) ==
  LET body == saves'[s].body
      full == PathResolve(currentWorkingDir, body.filePath.v)
  IN /\ saves'[s].reply.code = 200
     /\ saves'[s].reply.body.success = TRUE
     /\ saves'[s].reply.body.status = "success"
     /\ saves'[s].reply.body.size = Len(body.content.v)
     /\ fsDirs' = fsDirs \cup Ancestors(full)
     /\ DOMAIN fsFiles' = DOMAIN fsFiles \cup {full}
     /\ fsFiles'[full] = Text(body.content.v)
     /\ \A f \in DOMAIN fsFiles \ {full} : fsFiles'[f] = fsFiles[f]

\* a regular file stands where the path needs a directory, or a directory
\* where the file goes
PathBlocked(full) ==
  \/ \E a \in Ancestors(full) : a \in DOMAIN fsFiles
  \/ full \in fsDirs

\* C14 as stated: every save-file whose path resolves inside the working
\* directory succeeds, missing directories being created.
C14_InsideSucceeds ==
  [][\A s \in Saves : SavedInside(s) => SaveSucceeded(s)]_vars

\* C14 amended: it succeeds unless an existing regular file stands where one
\* of the path's directories is needed or the path names an existing
\* directory; then it is answered 500 'failed' and nothing is written.
C14_InsideSucceedsUnlessBlocked ==
  [][\A s \in Saves :
       SavedInside(s) =>
         IF PathBlocked(PathResolve(currentWorkingDir, saves'[s].body.filePath.v))
         THEN /\ saves'[s].reply.code = 500
              /\ saves'[s].reply.body.status = "failed"
              /\ fsDirs' = fsDirs /\ fsFiles' = fsFiles
         ELSE SaveSucceeded(s)]_vars

\* C14 witness: s/n/x.js was saved under /w/p, where neither s nor s/n
\* existed, and x.js was saved twice.
C14_Witness ==
  /\ currentWorkingDir = DirP
  /\ saves[1].st = "done" /\ saves[1].body.filePath = Str(PathNew)
  /\ saves[2].st = "done" /\ saves[2].body.filePath = Str(PathDeep)
  /\ saves[2].reply.code = 200
  /\ JoinSegments(<<NameW, NameP, <<"s">>, <<"n">> >>) \in fsDirs
  /\ JoinSegments(<<NameW, NameP, <<"s">>, <<"n">>, PathNew>>) \in DOMAIN fsFiles

\* ------------------------------------------------------ the directory scan

\* A project /t five directories deep, with hidden and build directories.
DirT == JoinSegments(<< <<"t">> >>)
DirD1 == DirT \o JoinSegments(<< <<"d","1">> >>)
DirD2 == DirD1 \o JoinSegments(<< <<"d","2">> >>)
DirD3 == DirD2 \o JoinSegments(<< <<"d","3">> >>)
DirD4 == DirD3 \o JoinSegments(<< <<"d","4">> >>)
DirGit == DirT \o JoinSegments(<< <<".","g","i","t">> >>)
DirDist == DirT \o JoinSegments(<< <<"d","i","s","t">> >>)
DirCoverage == DirT \o JoinSegments(<< <<"c","o","v","e","r","a","g","e">> >>)
DirBuild == DirD1 \o JoinSegments(<< <<"b","u","i","l","d">> >>)
DirModules == DirD1 \o JoinSegments(<<NameNodeModules>>)

ScanDirs ==
  {DirRoot, DirT, DirD1, DirD2, DirD3, DirD4, DirGit, DirDist, DirCoverage,
   DirBuild, DirModules}

FileA == DirT \o JoinSegments(<<NameAJs>>)
FileUpper == DirD1 \o JoinSegments(<< <<"B",".","T","S">> >>)
FileLevel2 == DirD2 \o JoinSegments(<< <<"c",".","m","d">> >>)
FileLevel3 == DirD3 \o JoinSegments(<< <<"e",".","c","s","s">> >>)
FileLevel4 == DirD4 \o JoinSegments(<< <<"f",".","j","s">> >>)
FileEnv == DirT \o JoinSegments(<< <<".","e","n","v",".","j","s">> >>)
FileTxt == DirT \o JoinSegments(<< <<"r",".","t","x","t">> >>)
FileBig == DirD1 \o JoinSegments(<< <<"b","i","g",".","j","s">> >>)

\* files of the directories the scan passes over
FilesInSkipped ==
  {DirGit \o JoinSegments(<<NameAJs>>), DirDist \o JoinSegments(<<NameAJs>>),
   DirCoverage \o JoinSegments(<<NameAJs>>), DirBuild \o JoinSegments(<<NameAJs>>),
   DirModules \o JoinSegments(<<NameAJs>>)}

\* files that are there or not
OptionalFiles ==
  {FileA, FileUpper, FileLevel2, FileLevel3, FileLevel4, FileEnv, FileTxt}

\* lengths of the text of big.js (0: there is no big.js)
BigLengths == {0, MaxContentLength, MaxContentLength + 1}

ScanRoots == {DirT, DirD1}

\* what the agent may not read: nothing, a file, a subdirectory, the root
UnreadableSets == {{}, {FileA}, {FileUpper}, {DirD2}, {FileA, DirD2}, {DirD1}, {DirT}}

InitScan ==
  /\ InitPm
  /\ saves = [s \in Saves |-> NoSave]
  /\ currentWorkingDir \in ScanRoots
  /\ fsDirs = ScanDirs
  /\ fsUnreadable \in UnreadableSets
  /\ \E present \in SUBSET OptionalFiles, big \in BigLengths :
        fsFiles = [f \in FilesInSkipped \cup present \cup
                           (IF big = 0 THEN {} ELSE {FileBig}) |->
                     IF f = FileBig THEN Filled(big) ELSE Text(BaseName(f))]

\* getProjectStructure(dirPath) is called
ScanProject(dirPath) ==
  /\ server = "listening"
  /\ last' = [ep |-> "scan", dirPath |-> dirPath,
              result |-> getProjectStructure(currentWorkingDir, dirPath)]
  /\ UNCHANGED <<pmVars, fsVars>>

NextScan == \E dirPath \in ScanRoots : ScanProject(dirPath)

SpecScan == InitScan /\ [][NextScan]_vars

\* ------------------------------------------------------ claims on the scan

\* the files of the latest scan's result, and the file each record names
ScannedRecords == last.result.files
ScannedPaths ==
  {PathResolve(currentWorkingDir, ScannedRecords[i].path) : i \in 1..Len(ScannedRecords)}

\* how many levels below root the directory holding full is (root: level 0)
LevelBelow(full, root) == Len(SegmentsOf(full)) - 1 - Len(SegmentsOf(root))

\* C16: no file of a scan's result is held by a directory three or more
\* levels below the scanned directory.
C16_ScanDepthLimit ==
  last.ep = "scan" =>
    \A f \in ScannedPaths :
       /\ InsideDirectory(f, last.dirPath)
       /\ LevelBelow(f, last.dirPath) < 3

\* C16 witness: /t was scanned with files at levels 2, 3 and 4; the one at
\* level 2 is in the result.
C16_Witness ==
  /\ last.ep = "scan" /\ last.dirPath = DirT
  /\ {FileLevel2, FileLevel3, FileLevel4} \subseteq DOMAIN fsFiles
  /\ FileLevel2 \in ScannedPaths

\* the names of the directories between root and the file f
DirectoriesBetween(f, root) ==
  LET segs == SegmentsOf(f)
  IN {segs[k] : k \in (Len(SegmentsOf(root)) + 1)..(Len(segs) - 1)}

\* f and every directory from root down to it can be read
Readable(f, root) ==
  /\ f \notin fsUnreadable
  /\ \A a \in Ancestors(f) : InsideDirectory(a, root) => a \notin fsUnreadable

\* f passes every test of C17 that does not need its content
QualifiesByName(f, root) ==
  /\ InsideDirectory(f, root)
  /\ LevelBelow(f, root) < 3
  /\ ToLowerCase(ExtName(BaseName(f))) \in SUPPORTED_EXTENSIONS
  /\ Head(BaseName(f)) # "."
  /\ \A d \in DirectoriesBetween(f, root) :
        /\ Head(d) # "."
        /\ d \notin {NameNodeModules, <<"d","i","s","t">>, <<"b","u","i","l","d">>,
                      <<"c","o","v","e","r","a","g","e">>}

\* f is a file the scan of root is to return, in the words of C17: its
\* content is one the agent can read, and is not over the cutoff
Qualifies(f, root) ==
  /\ QualifiesByName(f, root)
  /\ Readable(f, root)
  /\ Length(fsFiles[f]) <= 1048576

RECURSIVE SumLengths(_)
SumLengths(files) ==
  IF files = {} THEN 0
  ELSE LET f == CHOOSE x \in files : TRUE
       IN Length(fsFiles[f]) + SumLengths(files \ {f})

\* C18: a file whose text is longer than 1 MiB is not in a scan's result nor
\* in its stats, one whose text is exactly 1 MiB long is, and the scan
\* succeeds with every other qualifying file.
C18_LargeFileSkipped ==
  last.ep = "scan" =>
    LET small == {f \in DOMAIN fsFiles :
                    Qualifies(f, last.dirPath) /\ Length(fsFiles[f]) <= 1048576}
    IN /\ last.result.success = TRUE
       /\ \A f \in DOMAIN fsFiles : Length(fsFiles[f]) > 1048576 => f \notin ScannedPaths
       /\ (/\ FileBig \in DOMAIN fsFiles
            /\ Length(fsFiles[FileBig]) = 1048576
            /\ Readable(FileBig, last.dirPath))
            => FileBig \in ScannedPaths
       /\ small \subseteq ScannedPaths
       /\ last.result.stats.totalFiles = Cardinality(small)
       /\ last.result.stats.totalSize = SumLengths(small)

\* C18 witness: /t was scanned with a big.js of 1 MiB + 1 characters beside
\* a.js; a.js is in the result and big.js is not.
C18_Witness ==
  /\ last.ep = "scan" /\ last.dirPath = DirT
  /\ {FileA, FileBig} \subseteq DOMAIN fsFiles
  /\ Length(fsFiles[FileBig]) = 1048577
  /\ FileA \in ScannedPaths /\ FileBig \notin ScannedPaths
  /\ last.result.stats.totalFiles = Len(ScannedRecords)

\* ------------------------------------------------- claims on the registry

\* every entry of the registry refers to a process that has reported neither
\* 'close' nor 'error'
EntriesAreLive ==
  \A r \in Tracked : child[r].st \in {"running", "failing"} /\ child[r].events = <<>>

\* C19: every registry entry refers to a spawned process that has reported
\* neither 'close' nor 'error'; a process that has reported one has no
\* entry; and the 'close' that follows an 'error' removes nothing more.
C19_RegistryHoldsLiveProcesses ==
  /\ [](EntriesAreLive)
  /\ [][\A r \in Runs :
          (child[r].st = "errored" /\ child'[r].st = "closed") =>
             activeProcesses' = activeProcesses]_vars

\* the requests whose process was spawned
Spawned == {r \in Runs : child[r].st # "none"}

\* C20: no two spawns have the same processId, and the step that spawns a
\* process puts its entry into the registry, before any of its output.
C20_UniqueProcessIds ==
  /\ [](\A r, q \in Spawned : r # q => child[r].processId # child[q].processId)
  /\ [][\A r \in Runs :
          (child[r].st = "none" /\ child'[r].st # "none") =>
             /\ child'[r].processId \in DOMAIN activeProcesses'
             /\ activeProcesses'[child'[r].processId] = r
             /\ child'[r].out = <<>> /\ child'[r].err = <<>>]_vars

\* ------------------------------------ claims on processes of one millisecond

\* the processes that were spawned and have reported neither 'close' nor
\* 'error'
Unreported == {r \in Runs : child[r].st \in {"running", "failing"} /\ child[r].events = <<>>}

\* C21: every spawned process that has reported neither 'close' nor 'error'
\* has an entry of its own in the registry, so that the registry's size, which
\* GET /health reports and POST /kill walks, is the number of these
\* processes; and a step in which one process reports 'close' or 'error'
\* leaves the entry of every other such process in place.
C21_EveryLiveProcessTracked ==
  /\ [](/\ \A r \in Unreported :
             /\ child[r].processId \in DOMAIN activeProcesses
             /\ activeProcesses[child[r].processId] = r
        /\ Cardinality(DOMAIN activeProcesses) = Cardinality(Unreported))
  /\ [][\A r, q \in Runs :
          (/\ r # q
           /\ Len(child'[r].events) > Len(child[r].events)
           /\ q \in Unreported
           /\ child[q].processId \in DOMAIN activeProcesses)
          => child[q].processId \in DOMAIN activeProcesses']_vars

\* ------------------------------------------------- claims on the timeout

\* this step runs a timer callback of request r
TimerRuns(r) ==
  \/ timers[r].t10 = "pending" /\ timers'[r].t10 = "done"
  \/ timers[r].t5 = "pending" /\ timers'[r].t5 = "done"

\* the timers of request r have sent SIGTERM and SIGKILL
TimedOut(c) == c.sigs[TermByTimeout] > 0 /\ c.sigs[KillByTimeout] > 0

\* C22: a timer callback writes no response, settles no promise and leaves
\* the registry as it was; a request whose process was spawned is answered
\* only in the step in which the process reports 'close' (or 'error'), so it
\* has no response while the process has reported nothing, SIGTERM and
\* SIGKILL sent or not; and the entry of a process that was sent both and has
\* not ended stays in the registry.
C22_TimeoutOnlySignals ==
  /\ [][\A r \in Runs :
          TimerRuns(r) =>
            /\ activeProcesses' = activeProcesses
            /\ resp' = resp
            /\ promise' = promise]_vars
  /\ [](\A r \in Unreported : resp[r] = <<>> /\ promise[r].st = "pending")
  /\ [][\A r \in Runs :
          (child[r].st # "none" /\ resp'[r] # resp[r]) =>
             Len(child'[r].events) > Len(child[r].events)]_vars
  /\ [][\A r \in Runs :
          (/\ r \in Unreported
           /\ TimedOut(child[r])
           /\ child[r].processId \in DOMAIN activeProcesses
           /\ child'[r].events = <<>>)
          => child[r].processId \in DOMAIN activeProcesses']_vars

\* the number of signals the timers of a call have sent to its child
TimeoutSignals(c) == c.sigs[TermByTimeout] + c.sigs[KillByTimeout]

\* C23: a timer callback signals only the child of its own call, and only
\* while that child has reported neither 'close' nor 'error'; its SIGKILL
\* goes to a child that its SIGTERM went to, 5 seconds or more after the 10
\* minutes; whatever other processes the registry tracks.
C23_TimeoutSignalsOwnLiveChild ==
  /\ [][\A r \in Runs :
          TimeoutSignals(child'[r]) # TimeoutSignals(child[r]) =>
            /\ TimerRuns(r)
            /\ child[r].events = <<>>
            /\ child[r].st \in {"running", "failing"}
            /\ \A q \in Runs \ {r} : child'[q] = child[q]]_vars
  /\ [][\A r \in Runs :
          child'[r].sigs[KillByTimeout] # child[r].sigs[KillByTimeout] =>
            /\ child[r].sigs[TermByTimeout] = 1
            /\ now >= child[r].processId + CommandTimeoutMs + KillGraceMs]_vars

\* ---------------------------------- claims on requests that are in flight

\* the save of request s, handled in this step, wrote the file full
Wrote(s, full) ==
  /\ saves'[s].reply.code = 200
  /\ DOMAIN fsFiles' = DOMAIN fsFiles \cup {full}
  /\ fsFiles'[full] = Text(saves'[s].body.content.v)

\* C24: a save-file is resolved and confined against the working directory
\* as it is in the step that handles the request's complete body: a write
\* that happens lands at the path resolved from it, inside it; and a
\* list-files for a directory that is handled while a save-file is open makes
\* that directory the working directory the save-file then meets.
C24_SaveUsesRootAtEnd ==
  /\ [][\A s \in Saves :
          (SaveHandled(s) /\ (fsFiles' # fsFiles \/ saves'[s].reply.code = 200)) =>
             /\ Wrote(s, PathResolve(currentWorkingDir, saves'[s].body.filePath.v))
             /\ InsideDirectory(PathResolve(currentWorkingDir, saves'[s].body.filePath.v),
                                currentWorkingDir)]_vars
  /\ [][(ListedDirectory /\ \E s \in Saves : saves[s].st = "open") =>
          currentWorkingDir' = PathResolve(DirRoot, last'.query.v)]_vars

\* ------------------------------------------------ the output of processes

CmdEchoHello == <<"e","c","h","o"," ","h","e","l","l","o">>

\* what processes write, in pieces as the pipe hands them over
StreamChunks ==
  {<<"h","e","l","l","o","\n">>, <<" ","h","i","\n">>, <<"y","o"," ">>}

\* Run requests that spawn, the output of their processes and their ends.
NextOutput ==
  \/ \E r \in Runs, command \in {CmdEchoHello, CmdSleep}, outcome \in {"running", "failing"} :
        RunRequest(r, [json |-> TRUE, command |-> Str(command)], outcome)
  \/ \E r \in Runs, chunk \in StreamChunks : ChildStdout(r, chunk)
  \/ \E r \in Runs, chunk \in StreamChunks : ChildStderr(r, chunk)
  \/ \E r \in Runs, code \in OwnExitCodes \cup {FailedSpawnCode} : ChildClose(r, code)
  \/ \E r \in Runs : ChildError(r)

SpecOutput == Init /\ [][NextOutput]_vars

\* ------------------------------------------------- claims on the output

\* the chunks of one stream, of those that arrived, put together in the
\* order of their arrival
RECURSIVE ChunksOf(_, _)
ChunksOf(arrived, stream) ==
  IF arrived = <<>> THEN <<>>
  ELSE (IF Head(arrived)[1] = stream THEN Head(arrived)[2] ELSE <<>>)
       \o ChunksOf(Tail(arrived), stream)

\* s without the white space at its two ends
Stripped(s) ==
  LET inked == {i \in 1..Len(s) : s[i] \notin {" ", "\t", "\n"}}
  IN IF inked = {} THEN <<>>
     ELSE SubSeq(s, CHOOSE i \in inked : \A j \in inked : i <= j,
                    CHOOSE i \in inked : \A j \in inked : j <= i)

\* request r was answered by the 'close' handler of its process
AnsweredByClose(r) == child[r].events # <<>> /\ child[r].events[1] = "close"

\* C25: the CommandResult of a request carries the command of that request
\* and the stdout chunks, stderr chunks and exit code of that request's
\* process, whatever the other requests' processes wrote or ended with; and
\* a step in which one process writes, closes or fails changes neither the
\* buffers nor the response of any other request.
C25_ResultsAreOwn ==
  /\ [](\A r \in Runs :
          (child[r].st # "none" /\ resp[r] # <<>>) =>
            /\ resp[r][1].body.command = runs[r].body.command.v
            /\ resp[r][1].body.output = Stripped(ChunksOf(child[r].arrived, "stdout"))
            /\ IF AnsweredByClose(r)
               THEN /\ resp[r][1].body.error = Stripped(ChunksOf(child[r].arrived, "stderr"))
                    /\ resp[r][1].body.exitCode = child[r].code
               ELSE resp[r][1].body.exitCode = Num(-1))
  /\ [][\A r \in Runs :
          (child[r].st # "none" /\ child'[r] # child[r]) =>
             \A q \in Runs \ {r} :
                /\ resp'[q] = resp[q]
                /\ child'[q] = child[q]
                /\ promise'[q] = promise[q]]_vars

\* C25 witness: two requests with different commands were answered, one
\* process having written to stdout and exited 0, the other having written
\* something else to stderr and exited 1.
C25_Witness ==
  \E r, q \in Runs :
     /\ runs[r].body.command # runs[q].body.command
     /\ AnsweredByClose(r) /\ child[r].code = Num(0)
     /\ AnsweredByClose(q) /\ child[q].code = Num(1)
     /\ Len(child[r].arrived) = 1 /\ child[r].arrived[1][1] = "stdout"
     /\ Len(child[q].arrived) = 1 /\ child[q].arrived[1][1] = "stderr"
     /\ child[r].arrived[1][2] # child[q].arrived[1][2]
     /\ resp[r][1].body.status = "success"
     /\ resp[q][1].body.status = "failed"

\* C30: the output of a CommandResult is the stdout chunks of the process in
\* the order of their arrival, put together and stripped of the white space
\* at the two ends; its error, when 'close' answered, is the same of the
\* stderr chunks; so 'echo hello', whose process writes "hello\n" and exits
\* 0, yields output 'hello', exit code 0 and status 'success'.
C30_OutputIsTrimmedConcatenation ==
  \A r \in Runs :
     (child[r].st # "none" /\ resp[r] # <<>>) =>
       /\ resp[r][1].body.output = Stripped(ChunksOf(child[r].arrived, "stdout"))
       /\ AnsweredByClose(r) =>
            /\ resp[r][1].body.error = Stripped(ChunksOf(child[r].arrived, "stderr"))
            /\ (/\ runs[r].body.command.v = CmdEchoHello
                /\ child[r].arrived = << <<"stdout", <<"h","e","l","l","o","\n">> >> >>
                /\ child[r].code = Num(0))
               => resp[r][1] =
                    Reply(200, [command |-> CmdEchoHello,
                                output |-> <<"h","e","l","l","o">>,
                                error |-> <<>>,
                                exitCode |-> Num(0),
                                status |-> "success"])

\* C30 witness: 'echo hello', whose process wrote "hello\n" to stdout and
\* exited 0, was answered with output 'hello' and status 'success', and a
\* process that wrote "yo " to stderr and exited 1 with error 'yo'.
C30_Witness ==
  \E r, q \in Runs :
     /\ AnsweredByClose(r)
     /\ runs[r].body.command.v = CmdEchoHello
     /\ child[r].arrived = << <<"stdout", <<"h","e","l","l","o","\n">> >> >>
     /\ resp[r][1].body.output = <<"h","e","l","l","o">>
     /\ resp[r][1].body.exitCode = Num(0)
     /\ resp[r][1].body.status = "success"
     /\ AnsweredByClose(q)
     /\ child[q].arrived = << <<"stderr", <<"y","o"," ">> >> >>
     /\ resp[q][1].body.output = <<>>
     /\ resp[q][1].body.error = <<"y","o">>

\* ------------------------------------------- every endpoint and every event

\* Every endpoint with one or two of its inputs, a preflight, an unmatched
\* request, and the ends of the spawned processes.
NextFrame ==
  \/ HealthRequest
  \/ \E query \in ListQueries : ListFilesRequest(query)
  \/ \E s \in Saves : SaveRequest(s)
  \/ \E s \in Saves : SaveEnd(s, [json |-> TRUE, filePath |-> Str(PathNew),
                                  content |-> Str(<<"h", "i">>)])
  \/ \E r \in Runs, command \in {Str(<<>>), Str(CmdSleep)}, outcome \in {"running", "failing"} :
        RunRequest(r, [json |-> TRUE, command |-> command], outcome)
  \/ \E r \in Runs, code \in OwnExitCodes \cup {Null, FailedSpawnCode} : ChildClose(r, code)
  \/ \E r \in Runs : ChildError(r)
  \/ KillRequest
  \/ OtherRequest("OPTIONS", "/run")
  \/ OtherRequest("GET", "/nowhere")

SpecFrame == InitFiles /\ [][NextFrame]_vars

\* --------------------------------------------- claims on what changes what

\* this step answers a GET /list-files with code
ListAnswered(code) == last' # last /\ last'.ep = "list-files" /\ last'.code = code

\* C26: a step that changes the working directory answers a GET /list-files
\* whose path exists and is a directory (one answered 404 or 400 leaves it
\* as it was); a step that changes the registry is a run request's spawn,
\* which inserts the new process, or the 'close' or 'error' of a process,
\* which deletes that process's key.
C26_OnlyListFilesAndProcessEvents ==
  /\ [][currentWorkingDir' # currentWorkingDir =>
          /\ last' # last
          /\ last'.ep = "list-files"
          /\ last'.code \notin {400, 404}
          /\ ExistsSync(ProjectPathOf(last'.query))
          /\ IsDirectory(ProjectPathOf(last'.query))]_vars
  /\ [][(ListAnswered(404) \/ ListAnswered(400)) =>
          currentWorkingDir' = currentWorkingDir]_vars
  /\ [][activeProcesses' # activeProcesses =>
          \/ \E r \in Runs :
                /\ runs[r].st = "idle" /\ runs'[r].st = "received"
                /\ child[r].st = "none" /\ child'[r].st # "none"
                /\ activeProcesses' = MapSet(activeProcesses, child'[r].processId, r)
          \/ \E r \in Runs :
                /\ Len(child'[r].events) = Len(child[r].events) + 1
                /\ activeProcesses' = MapDelete(activeProcesses, child[r].processId)]_vars

\* C26 witness: a list-files of a file was answered 400 with the working
\* directory as it was at first, after a save-file wrote a file, one process
\* was spawned and closed, and with another tracked.
C26_Witness ==
  /\ last.ep = "list-files" /\ last.code = 400
  /\ currentWorkingDir = DirP
  /\ \E s \in Saves : saves[s].st = "done" /\ saves[s].reply.code = 200
  /\ \E r \in Runs : child[r].st = "closed"
  /\ \E r \in Runs : r \in Tracked

\* ------------------------------------------ claims on the scan, continued

\* C28: a scan reports success whatever cannot be read; a file that passes
\* the tests of name, depth and size is in its result exactly if the file and
\* every directory from the scanned one down to it can be read.
C28_UnreadableSkipped ==
  last.ep = "scan" =>
    /\ last.result.success = TRUE
    /\ \A f \in DOMAIN fsFiles :
          (QualifiesByName(f, last.dirPath) /\ Length(fsFiles[f]) <= 1048576) =>
             (f \in ScannedPaths <=> Readable(f, last.dirPath))

\* C28 witness: /t was scanned where a.js and the directory d1/d2 cannot be
\* read; B.TS of d1 is in the result, a.js and d1/d2/c.md are not.
C28_Witness ==
  /\ last.ep = "scan" /\ last.dirPath = DirT
  /\ fsUnreadable = {FileA, DirD2}
  /\ {FileA, FileUpper, FileLevel2} \subseteq DOMAIN fsFiles
  /\ last.result.success = TRUE
  /\ FileUpper \in ScannedPaths
  /\ FileA \notin ScannedPaths /\ FileLevel2 \notin ScannedPaths

\* f is a readable file with a supported extension, not over the cutoff,
\* neither hidden nor below a hidden or build directory, that lies directly
\* inside a directory exactly level levels below root
SupportedFileAt(f, root, level) ==
  /\ InsideDirectory(f, root)
  /\ LevelBelow(f, root) = level
  /\ ToLowerCase(ExtName(BaseName(f))) \in SUPPORTED_EXTENSIONS
  /\ Head(BaseName(f)) # "."
  /\ Readable(f, root)
  /\ Length(fsFiles[f]) <= 1048576
  /\ \A d \in DirectoriesBetween(f, root) :
        /\ Head(d) # "."
        /\ d \notin {NameNodeModules, <<"d","i","s","t">>, <<"b","u","i","l","d">>,
                      <<"c","o","v","e","r","a","g","e">>}

\* C27 as stated: a supported file directly inside a directory exactly 3
\* levels below the scanned directory is in the result, and no file of a
\* deeper directory is.
C27_ThirdLevelIncluded ==
  last.ep = "scan" =>
    /\ \A f \in DOMAIN fsFiles : SupportedFileAt(f, last.dirPath, 3) => f \in ScannedPaths
    /\ \A f \in ScannedPaths : LevelBelow(f, last.dirPath) <= 3

\* C27 amended: a supported file directly inside a directory exactly 2
\* levels below the scanned directory is in the result, and no file of a
\* directory 3 or more levels below it is.
C27_SecondLevelIncluded ==
  last.ep = "scan" =>
    /\ \A f \in DOMAIN fsFiles : SupportedFileAt(f, last.dirPath, 2) => f \in ScannedPaths
    /\ \A f \in ScannedPaths : LevelBelow(f, last.dirPath) <= 2

\* C27 witness: /t, all of it readable, was scanned with c.md two levels
\* down and e.css three levels down; c.md is in the result and e.css is not.
C27_Witness ==
  /\ last.ep = "scan" /\ last.dirPath = DirT
  /\ fsUnreadable = {}
  /\ {FileLevel2, FileLevel3} \subseteq DOMAIN fsFiles
  /\ SupportedFileAt(FileLevel2, DirT, 2) /\ FileLevel2 \in ScannedPaths
  /\ SupportedFileAt(FileLevel3, DirT, 3) /\ FileLevel3 \notin ScannedPaths

\* the sizes of the first n records of files, added up
RECURSIVE SizeOfFirst(_, _)
SizeOfFirst(files, n) ==
  IF n = 0 THEN 0 ELSE SizeOfFirst(files, n - 1) + files[n].size

\* the places <<key, index>> of the grouping
PlacesOf(groups) ==
  UNION {{<<d, j>> : j \in 1..Len(groups[d])} : d \in DOMAIN groups}

\* C29: in a scan's result totalFiles is the number of records of files,
\* totalSize the sum of their sizes (each the length of the file's text),
\* every record of files is at exactly one place of filesByDirectory, in the
\* group keyed by the directory that holds the file ('.' for the files of
\* the working directory itself), no group is empty or holds anything else,
\* and stats.directories is the number of groups.
C29_StatsMatchFiles ==
  last.ep = "scan" =>
    LET files == last.result.files
        groups == last.result.filesByDirectory
        stats == last.result.stats
    IN /\ stats.totalFiles = Len(files)
       /\ stats.totalSize = SizeOfFirst(files, Len(files))
       /\ \A i \in 1..Len(files) :
             /\ files[i].size = Length(fsFiles[PathResolve(currentWorkingDir, files[i].path)])
             /\ Cardinality({pl \in PlacesOf(groups) : groups[pl[1]][pl[2]] = files[i]}) = 1
       /\ \A pl \in PlacesOf(groups) :
             LET g == groups[pl[1]][pl[2]]
                 holder == PathDirname(PathResolve(currentWorkingDir, g.path))
             IN /\ \E i \in 1..Len(files) : files[i] = g
                /\ holder = PathResolve(currentWorkingDir, pl[1])
                /\ holder = currentWorkingDir <=> pl[1] = <<".">>
       /\ \A d \in DOMAIN groups : groups[d] # <<>>
       /\ stats.directories = Cardinality(DOMAIN groups)

\* C29 witness: /t, the working directory, was scanned with a.js in it,
\* B.TS in d1 and c.md in d1/d2: three files in three groups, a.js under '.'.
C29_Witness ==
  /\ last.ep = "scan" /\ last.dirPath = DirT /\ currentWorkingDir = DirT
  /\ last.result.stats.totalFiles = 3
  /\ last.result.stats.directories = 3
  /\ last.result.stats.totalSize = 4 + 4 + 4
  /\ DOMAIN last.result.filesByDirectory =
       {<<".">>, <<"d","1">>, <<"d","1","/","d","2">>}
  /\ Len(last.result.filesByDirectory[<<".">>]) = 1
  /\ last.result.filesByDirectory[<<".">>][1].name = NameAJs

====
